---- MODULE Spec2Model ----
(***************************************************************************)
(* Layout reconstruction and receipt field extraction of                   *)
(* backend/app.py: clean_ocr_text, extract_price,                          *)
(* analyze_layout_column_first (with its nested cluster_column_blocks)     *)
(* and parse_receipt_text.                                                 *)
(*                                                                         *)
(* A Python str is a sequence of one-character strings.  A Python          *)
(* Optional is a sequence of length at most one: <<>> is None, <<v>> is    *)
(* the value v.  A price is the float's value in cents.  _x is kept in     *)
(* half pixels so that int() has something to truncate; _y, _w, _h are     *)
(* whole pixels.  A block inside columns and cards is its index in the     *)
(* input list.                                                             *)
(***************************************************************************)
EXTENDS Integers, Sequences, FiniteSets, TLC

VARIABLES
    pc,               \* position of the running call
    blocks,           \* the argument of analyze_layout_column_first / parse_receipt_text
    median_height, median_width,
    col_boundaries,   \* sorted column start positions (pixels)
    columns,          \* columns[c]: block indices assigned to column c, in input order
    column_cards,     \* column_cards[c]: the cards of column c, each a list of block indices
    table_rows,       \* rows built so far: [row, cells, confidences]
    extracted_lines,  \* the non-blank row texts so far
    result_blocks,    \* the blocks of the non-empty cells so far
    layout,           \* the returned dict of analyze_layout_column_first
    sorted_blocks,    \* parse_receipt_text: the blocks sorted by _y
    idx,              \* parse_receipt_text: loop position in sorted_blocks
    store_name, items, subtotal, tax, total,
    parsed,           \* the returned dict of parse_receipt_text
    text_in,          \* clean_ocr_text: the argument of the first call
    cleaned,          \* clean_ocr_text: the value returned by the latest call
    prev_cleaned,     \* clean_ocr_text: the value returned by the call before
    calls             \* clean_ocr_text: number of calls made

vars == <<pc, blocks, median_height, median_width, col_boundaries, columns,
          column_cards, table_rows, extracted_lines, result_blocks, layout,
          sorted_blocks, idx,
          store_name, items, subtotal, tax, total, parsed,
          text_in, cleaned, prev_cleaned, calls>>

layoutVars == <<median_height, median_width, col_boundaries, columns,
                column_cards, table_rows, extracted_lines, result_blocks, layout>>
parseVars == <<sorted_blocks, idx, store_name, items, subtotal, tax, total, parsed>>
cleanVars == <<text_in, cleaned, prev_cleaned, calls>>

None == <<>>
Some(v) == <<v>>

-----------------------------------------------------------------------------
(* Characters and the character classes of Python's re module (ASCII).     *)

LowerSeq == <<"a","b","c","d","e","f","g","h","i","j","k","l","m",
              "n","o","p","q","r","s","t","u","v","w","x","y","z">>
UpperSeq == <<"A","B","C","D","E","F","G","H","I","J","K","L","M",
              "N","O","P","Q","R","S","T","U","V","W","X","Y","Z">>
DigitSeq == <<"0","1","2","3","4","5","6","7","8","9">>

Range(s) == {s[i] : i \in 1..Len(s)}
Lower == Range(LowerSeq)
Upper == Range(UpperSeq)
Digit == Range(DigitSeq)
Letter == Lower \cup Upper
WordChar == Letter \cup Digit \cup {"_"}
Whitespace == {" ", "\t", "\n"}

LowerChar(c) ==
    IF c \in Upper THEN LowerSeq[CHOOSE i \in 1..Len(UpperSeq) : UpperSeq[i] = c] ELSE c
ToLower(s) == [i \in 1..Len(s) |-> LowerChar(s[i])]
DigitVal(c) == (CHOOSE i \in 1..Len(DigitSeq) : DigitSeq[i] = c) - 1

\* s[i..] starts with p
StartsWith(s, i, p) ==
    /\ i + Len(p) - 1 <= Len(s)
    /\ \A k \in 1..Len(p) : s[i + k - 1] = p[k]
\* Python: p in s
Contains(s, p) == \E i \in 1..(Len(s) + 1) : StartsWith(s, i, p)

\* Python: s.replace(old, new), old non-empty
RECURSIVE ReplaceFrom(_, _, _, _)
ReplaceFrom(s, i, old, new) ==
    IF i > Len(s) THEN <<>>
    ELSE IF StartsWith(s, i, old) THEN new \o ReplaceFrom(s, i + Len(old), old, new)
    ELSE <<s[i]>> \o ReplaceFrom(s, i + 1, old, new)
Replace(s, old, new) == ReplaceFrom(s, 1, old, new)

\* Python: s.strip()
RECURSIVE LStrip(_)
LStrip(s) == IF s # <<>> /\ Head(s) \in Whitespace THEN LStrip(Tail(s)) ELSE s
RECURSIVE RStrip(_)
RStrip(s) ==
    IF s # <<>> /\ s[Len(s)] \in Whitespace THEN RStrip(SubSeq(s, 1, Len(s) - 1)) ELSE s
Strip(s) == RStrip(LStrip(s))

\* Python: sep.join(parts)
RECURSIVE Join(_, _)
Join(sep, parts) ==
    IF parts = <<>> THEN <<>>
    ELSE IF Len(parts) = 1 THEN parts[1]
    ELSE parts[1] \o sep \o Join(sep, Tail(parts))

-----------------------------------------------------------------------------
(* The correction tables.                                                  *)

OCR_CORRECTIONS == <<
    <<  <<"S","u","b","t","o","t","a","i">>, <<"S","u","b","t","o","t","a","l">>  >>,
    <<  <<"T","o","t","a","i">>,             <<"T","o","t","a","l">>  >>,
    <<  <<"l","t","e","m">>,                 <<"I","t","e","m">>  >>,
    <<  <<"l","t","e","m","s">>,             <<"I","t","e","m","s">>  >>,
    <<  <<"Q","t","y">>,                     <<"Q","t","y">>  >>,
    <<  <<"Q","T","y">>,                     <<"Q","t","y">>  >>,
    <<  <<"Q","T","Y">>,                     <<"Q","t","y">>  >>,
    <<  <<"P","r","l","c","e">>,             <<"P","r","i","c","e">>  >>,
    <<  <<"A","r","n","o","u","n","t">>,     <<"A","m","o","u","n","t">>  >>,
    <<  <<"T","A","x">>,                     <<"T","a","x">>  >>,
    <<  <<"T","a","X">>,                     <<"T","a","x">>  >>,
    <<  <<"$","0",".","0","0">>,             <<"$","0",".","0","0">>  >> >>

\* A spacing rule (first)(word s?)\b under re.IGNORECASE, or the rule \)([A-Z][a-z]{2,}).
\* Every rule's replacement puts one space after the first matched character.
REGEX_CORRECTIONS == <<
    [kind |-> "word",  first |-> Digit,  word |-> <<"i","t","e","m">>, plural |-> TRUE],
    [kind |-> "word",  first |-> Digit,  word |-> <<"u","n","i","t">>, plural |-> TRUE],
    [kind |-> "paren", first |-> {")"},  word |-> <<>>,                plural |-> FALSE],
    [kind |-> "word",  first |-> Letter, word |-> <<"t","o","t","a","l">>, plural |-> FALSE],
    [kind |-> "word",  first |-> Letter,
     word |-> <<"s","u","b","t","o","t","a","l">>, plural |-> FALSE],
    [kind |-> "word",  first |-> Letter, word |-> <<"t","a","x">>,     plural |-> FALSE] >>

\* \b after position e, s[e] being a word character
WordEnd(s, e) == e = Len(s) \/ s[e + 1] \notin WordChar

\* end of the longest run of characters of class cls that starts at i (i - 1 if none)
RECURSIVE RunEnd(_, _, _)
RunEnd(s, i, cls) == IF i <= Len(s) /\ s[i] \in cls THEN RunEnd(s, i + 1, cls) ELSE i - 1

\* last position of the rule's match starting at i, 0 if it does not match there
RuleMatchEnd(rule, s, i) ==
    IF rule.kind = "paren"
    THEN IF /\ s[i] = ")"
            /\ i + 3 <= Len(s)
            /\ s[i + 1] \in Upper
            /\ s[i + 2] \in Lower
            /\ s[i + 3] \in Lower
         THEN RunEnd(s, i + 2, Lower)
         ELSE 0
    ELSE LET e == i + Len(rule.word) IN
         IF /\ s[i] \in rule.first
            /\ e <= Len(s)
            /\ \A k \in 1..Len(rule.word) : LowerChar(s[i + k]) = rule.word[k]
         THEN IF rule.plural /\ e + 1 <= Len(s) /\ LowerChar(s[e + 1]) = "s" /\ WordEnd(s, e + 1)
              THEN e + 1
              ELSE IF WordEnd(s, e) THEN e ELSE 0
         ELSE 0

\* Python: pattern.sub(replacement, s) for one spacing rule
RECURSIVE RuleSubFrom(_, _, _)
RuleSubFrom(rule, s, i) ==
    IF i > Len(s) THEN <<>>
    ELSE LET e == RuleMatchEnd(rule, s, i) IN
         IF e > 0
         THEN <<s[i], " ">> \o SubSeq(s, i + 1, e) \o RuleSubFrom(rule, s, e + 1)
         ELSE <<s[i]>> \o RuleSubFrom(rule, s, i + 1)
RuleSub(rule, s) == RuleSubFrom(rule, s, 1)

\* Python: PATTERN_AMPERSAND.sub(r"\1 & \2", s)
RECURSIVE AmpFrom(_, _)
AmpFrom(s, i) ==
    IF i > Len(s) THEN <<>>
    ELSE IF /\ i + 2 <= Len(s)
            /\ s[i] \in WordChar
            /\ s[i + 1] = "&"
            /\ s[i + 2] \in WordChar
         THEN <<s[i], " ", "&", " ", s[i + 2]>> \o AmpFrom(s, i + 3)
         ELSE <<s[i]>> \o AmpFrom(s, i + 1)
PATTERN_AMPERSAND(s) == AmpFrom(s, 1)

\* Python: re.sub(r" {2,}", " ", s)
RECURSIVE CollapseFrom(_, _)
CollapseFrom(s, i) ==
    IF i > Len(s) THEN <<>>
    ELSE IF s[i] = " " /\ i > 1 /\ s[i - 1] = " " THEN CollapseFrom(s, i + 1)
    ELSE <<s[i]>> \o CollapseFrom(s, i + 1)
CollapseSpaces(s) == CollapseFrom(s, 1)

\* Step 1 of clean_ocr_text: the dictionary loop from entry k on
RECURSIVE DictPass(_, _)
DictPass(s, k) ==
    IF k > Len(OCR_CORRECTIONS) THEN s
    ELSE DictPass(IF Contains(s, OCR_CORRECTIONS[k][1])
                  THEN Replace(s, OCR_CORRECTIONS[k][1], OCR_CORRECTIONS[k][2])
                  ELSE s, k + 1)

\* Step 2 of clean_ocr_text: the regex loop from rule k on
RECURSIVE RegexPass(_, _)
RegexPass(s, k) ==
    IF k > Len(REGEX_CORRECTIONS) THEN s
    ELSE RegexPass(RuleSub(REGEX_CORRECTIONS[k], s), k + 1)

clean_ocr_text(text) ==
    IF text = <<>> THEN text
    ELSE Strip(CollapseSpaces(PATTERN_AMPERSAND(RegexPass(DictPass(text, 1), 1))))

-----------------------------------------------------------------------------
(* PRICE_PATTERN = \$?\d+\.\d{2} (the second, effective definition) and    *)
(* extract_price.                                                          *)

\* last position of a price match starting at i, 0 if none.  A match must start
\* with "$" or a digit; the digit run ends where the "." is.
PriceMatchEnd(s, i) ==
    LET j == IF s[i] = "$" THEN i + 1 ELSE i
        k == RunEnd(s, j, Digit)
    IN  IF /\ k >= j
           /\ k + 3 <= Len(s)
           /\ s[k + 1] = "."
           /\ s[k + 2] \in Digit
           /\ s[k + 3] \in Digit
        THEN k + 3
        ELSE 0

\* PRICE_PATTERN.search(s): <<start, end>> of the leftmost match, <<0, 0>> if none
PriceSearch(s) ==
    IF \E i \in 1..Len(s) : PriceMatchEnd(s, i) > 0
    THEN LET i == CHOOSE i \in 1..Len(s) :
                      /\ PriceMatchEnd(s, i) > 0
                      /\ \A j \in 1..(i - 1) : PriceMatchEnd(s, j) = 0
         IN  <<i, PriceMatchEnd(s, i)>>
    ELSE <<0, 0>>
HasPrice(s) == PriceSearch(s)[1] > 0

\* PRICE_PATTERN.sub("", s)
RECURSIVE PriceStripFrom(_, _)
PriceStripFrom(s, i) ==
    IF i > Len(s) THEN <<>>
    ELSE LET e == PriceMatchEnd(s, i) IN
         IF e > 0 THEN PriceStripFrom(s, e + 1)
         ELSE <<s[i]>> \o PriceStripFrom(s, i + 1)
PriceStrip(s) == PriceStripFrom(s, 1)

\* float(digits "." dd) in cents
RECURSIVE Cents(_)
Cents(s) ==
    IF s = <<>> THEN 0
    ELSE IF s[Len(s)] \in Digit
         THEN Cents(SubSeq(s, 1, Len(s) - 1)) * 10 + DigitVal(s[Len(s)])
         ELSE Cents(SubSeq(s, 1, Len(s) - 1))

extract_price(text) ==
    LET m == PriceSearch(text) IN
    IF m[1] > 0 THEN Some(Cents(SubSeq(text, m[1], m[2]))) ELSE None

\* Python truthiness of a float | None: None and 0.0 are false
Truthy(price) == price # None /\ price[1] # 0

-----------------------------------------------------------------------------
(* Values of the variables a specification does not use.                   *)

IdleLayout ==
    /\ median_height = 0 /\ median_width = 0
    /\ col_boundaries = <<>> /\ columns = <<>> /\ column_cards = <<>>
    /\ table_rows = <<>> /\ extracted_lines = <<>> /\ result_blocks = <<>>
    /\ layout = None
IdleParse ==
    /\ sorted_blocks = <<>> /\ idx = 0
    /\ store_name = None /\ items = <<>>
    /\ subtotal = None /\ tax = None /\ total = None /\ parsed = None
IdleClean ==
    /\ text_in = <<>> /\ cleaned = <<>> /\ prev_cleaned = <<>> /\ calls = 0

\* the concatenation of a sequence of strings
RECURSIVE Concat(_)
Concat(parts) == IF parts = <<>> THEN <<>> ELSE Head(parts) \o Concat(Tail(parts))

-----------------------------------------------------------------------------
(* Sorting and numbers.                                                    *)

Max(a, b) == IF a >= b THEN a ELSE b

\* Python's order on tuples of numbers of one length
RECURSIVE KeyLess(_, _)
KeyLess(a, b) ==
    /\ a # <<>>
    /\ \/ a[1] < b[1]
       \/ a[1] = b[1] /\ KeyLess(Tail(a), Tail(b))

\* Python: sorted(seq, key=...) is stable: InsertSorted puts x behind every
\* element of the sorted list out whose key is not greater.  key is the function
\* from elements to their key tuples.
RECURSIVE InsertSorted(_, _, _)
InsertSorted(x, out, key) ==
    IF out = <<>> THEN <<x>>
    ELSE IF ~KeyLess(key[x], key[out[Len(out)]]) THEN Append(out, x)
    ELSE Append(InsertSorted(x, SubSeq(out, 1, Len(out) - 1), key), out[Len(out)])

RECURSIVE SortedFrom(_, _, _, _)
SortedFrom(seq, k, out, key) ==
    IF k > Len(seq) THEN out ELSE SortedFrom(seq, k + 1, InsertSorted(seq[k], out, key), key)
Sorted(seq, key) == SortedFrom(seq, 1, <<>>, key)

\* sorted(numbers)
SortedInts(seq) == Sorted(seq, [n \in Range(seq) |-> <<n>>])
\* sorted(set of numbers)
RECURSIVE SortedSet(_)
SortedSet(S) ==
    IF S = {} THEN <<>>
    ELSE LET m == CHOOSE m \in S : \A n \in S : m <= n IN <<m>> \o SortedSet(S \ {m})

\* sorted(values)[len(values) // 2]
Median(values) == SortedInts(values)[(Len(values) \div 2) + 1]

\* int(x) of a coordinate kept in half pixels: truncation towards zero
IntOf(x) == IF x >= 0 THEN x \div 2 ELSE -((-x) \div 2)

-----------------------------------------------------------------------------
(* analyze_layout_column_first.  Columns, rows and cards are numbered from *)
(* 1 here and from 0 in the code.  A confidence is a percentage.  A local  *)
(* of the code that is used more than once is bound by \E v \in {e}, which *)
(* evaluates e once.                                                       *)

\* EmptyLayout without the early return of line 151: the code below it leaves
\* col_boundaries = [0] and builds no row
EmptyLayoutFallThrough ==
    [table_rows |-> <<>>, column_count |-> 1, row_count |-> 0, raw_text |-> <<>>,
     blocks |-> <<>>]

\* lines 152-158
EmptyLayout ==
    [table_rows |-> <<>>, column_count |-> 0, row_count |-> 0, raw_text |-> <<>>,
     blocks |-> <<>>]

\* ColBoundaries with > for >= in the test of a gap
ColBoundariesStrict(bs, mw) ==
    LET all_x_starts == SortedSet({IntOf(bs[i]._x) : i \in 1..Len(bs)})
        new_cols == {all_x_starts[i] : i \in
                        {i \in 2..Len(all_x_starts) :
                            2 * (all_x_starts[i] - all_x_starts[i - 1])
                                > Max(3 * mw, 2 * 300)}}
    IN  SortedSet({all_x_starts[1]} \cup new_cols)

\* lines 167-186: col_boundaries for the blocks bs and the median width mw.
\* gap_size >= max(median_width * 1.5, 300) is compared with both sides doubled.
ColBoundaries(bs, mw) ==
    LET all_x_starts == SortedSet({IntOf(bs[i]._x) : i \in 1..Len(bs)})
        new_cols == {all_x_starts[i] : i \in
                        {i \in 2..Len(all_x_starts) :
                            2 * (all_x_starts[i] - all_x_starts[i - 1])
                                >= Max(3 * mw, 2 * 300)}}
    IN  SortedSet({all_x_starts[1]} \cup new_cols)

\* ColumnOf stopping at the first boundary that passes the test
ColumnOfFirstMatch(block_x, bounds) ==
    LET ok == {i \in 1..Len(bounds) : block_x >= 2 * (bounds[i] - 50)}
    IN  IF ok = {} THEN 1 ELSE CHOOSE i \in ok : \A j \in ok : i <= j

\* lines 195-198: the column of a block at block_x (half pixels): the last
\* boundary with block_x >= col_x - 50, the first column if there is none
ColumnOf(block_x, bounds) ==
    LET ok == {i \in 1..Len(bounds) : block_x >= 2 * (bounds[i] - 50)}
    IN  IF ok = {} THEN 1 ELSE CHOOSE i \in ok : \A j \in ok : j <= i

\* lines 192-199: columns[c] lists the blocks of column c in input order
AssignColumns(bs, bounds) ==
    [c \in 1..Len(bounds) |->
        SelectSeq([i \in 1..Len(bs) |-> i], LAMBDA i : ColumnOf(bs[i]._x, bounds) = c)]

\* GapStartsCard with > for >=
GapStartsCardStrict(gap, mh) == 10 * gap > 12 * mh

\* gap >= y_gap_threshold, y_gap_threshold = median_height * 1.2 (line 204),
\* compared with both sides multiplied by 10
GapStartsCard(gap, mh) == 10 * gap >= 12 * mh

\* NextYMax keeping the bottom edge of the block added last
NextYMaxLastAdded(current_y_max, y_max) == y_max

\* line 228: the bottom edge of the current card after a block joins it
NextYMax(current_y_max, y_max) == Max(current_y_max, y_max)

\* ClusterFrom without the final append of the current card
RECURSIVE ClusterFromNoFinalAppend(_, _, _, _, _, _, _)
ClusterFromNoFinalAppend(bs, sb, k, cards, current_card, current_y_max, mh) ==
    IF k > Len(sb) THEN cards
    ELSE LET y_min == bs[sb[k]]._y
             y_max == bs[sb[k]]._y + bs[sb[k]]._h
         IN  IF GapStartsCard(y_min - current_y_max, mh)
             THEN ClusterFromNoFinalAppend(bs, sb, k + 1, Append(cards, current_card),
                                           <<sb[k]>>, y_max, mh)
             ELSE ClusterFromNoFinalAppend(bs, sb, k + 1, cards,
                                           Append(current_card, sb[k]),
                                           NextYMax(current_y_max, y_max), mh)

\* lines 218-231: the loop over y_positions[1:] from position k on, then the
\* final append
RECURSIVE ClusterFrom(_, _, _, _, _, _, _)
ClusterFrom(bs, sb, k, cards, current_card, current_y_max, mh) ==
    IF k > Len(sb) THEN Append(cards, current_card)
    ELSE LET y_min == bs[sb[k]]._y
             y_max == bs[sb[k]]._y + bs[sb[k]]._h
         IN  IF GapStartsCard(y_min - current_y_max, mh)
             THEN ClusterFrom(bs, sb, k + 1, Append(cards, current_card),
                              <<sb[k]>>, y_max, mh)
             ELSE ClusterFrom(bs, sb, k + 1, cards,
                              Append(current_card, sb[k]),
                              NextYMax(current_y_max, y_max), mh)

\* cluster_column_blocks walking the blocks in input order, without the sort
cluster_column_blocks_unsorted(bs, col_blocks, mh) ==
    IF col_blocks = <<>> THEN <<>>
    ELSE ClusterFrom(bs, col_blocks, 2, <<>>, <<col_blocks[1]>>,
                     bs[col_blocks[1]]._y + bs[col_blocks[1]]._h, mh)

\* lines 206-233: the cards of the blocks col_blocks (indices into bs)
cluster_column_blocks(bs, col_blocks, mh) ==
    IF col_blocks = <<>> THEN <<>>
    ELSE LET sorted_col == Sorted(col_blocks, [i \in Range(col_blocks) |-> <<bs[i]._y>>])
         IN  ClusterFrom(bs, sorted_col, 2, <<>>, <<sorted_col[1]>>,
                         bs[sorted_col[1]]._y + bs[sorted_col[1]]._h, mh)

\* CardCell with min(...) for max(...) of the confidences
CardCellMinConfidence(bs, card_blocks) ==
    LET sorted_card == Sorted(card_blocks,
                              [i \in Range(card_blocks) |-> <<bs[i]._y, bs[i]._x>>])
        raw_card_text == Join(<<" ">>, [k \in 1..Len(sorted_card) |-> bs[sorted_card[k]].text])
        confs == {bs[i].confidence : i \in Range(sorted_card)}
    IN  [text |-> clean_ocr_text(raw_card_text),
         conf |-> IF confs = {} THEN 0 ELSE CHOOSE m \in confs : \A n \in confs : m <= n]

\* lines 258-267: text and confidence of the cell of a card
CardCell(bs, card_blocks) ==
    LET sorted_card == Sorted(card_blocks,
                              [i \in Range(card_blocks) |-> <<bs[i]._y, bs[i]._x>>])
        raw_card_text == Join(<<" ">>, [k \in 1..Len(sorted_card) |-> bs[sorted_card[k]].text])
        confs == {bs[i].confidence : i \in Range(sorted_card)}
    IN  [text |-> clean_ocr_text(raw_card_text),
         conf |-> IF confs = {} THEN 0 ELSE CHOOSE m \in confs : \A n \in confs : n <= m]

\* Cell wrapping around to the column's cards when the row has none
CellWrapAround(bs, cards, r) ==
    IF cards # <<>> THEN CardCell(bs, cards[((r - 1) % Len(cards)) + 1])
    ELSE [text |-> <<>>, conf |-> 0]

\* lines 253-267: the cell of row r in a column with the cards `cards`
Cell(bs, cards, r) ==
    IF r <= Len(cards) THEN CardCell(bs, cards[r]) ELSE [text |-> <<>>, conf |-> 0]

\* max_cards_per_col after the loop of lines 236-240
RECURSIVE MaxCards(_)
MaxCards(cc) ==
    IF cc = <<>> THEN 0 ELSE Max(MaxCards(SubSeq(cc, 1, Len(cc) - 1)), Len(cc[Len(cc)]))

\* RowIsPrinted without the test for a blank row
RowIsPrintedAlways(row_text) == TRUE

\* line 289: whether the text of a row goes into extracted_lines
RowIsPrinted(row_text) == Strip(row_text) # <<>>

\* lines 272-285: the result blocks of row r
RowBlocks(r, cells) ==
    LET filled == SelectSeq([c \in 1..Len(cells) |-> c], LAMBDA c : cells[c].text # <<>>)
    IN  [k \in 1..Len(filled) |->
            [text |-> cells[filled[k]].text, confidence |-> cells[filled[k]].conf,
             row |-> r, col |-> filled[k], _x |-> 0, _y |-> (r - 1) * 50,
             _w |-> 200, _h |-> 40]]

\* lines 151-158
LayoutEmpty ==
    /\ pc = "layout_start"
    /\ blocks = <<>>
    /\ layout' = Some(EmptyLayout)
    /\ pc' = "layout_done"
    /\ UNCHANGED <<blocks, median_height, median_width, col_boundaries, columns,
                   column_cards, table_rows, extracted_lines, result_blocks>>
    /\ UNCHANGED parseVars /\ UNCHANGED cleanVars

\* lines 160-189
DetectColumns ==
    /\ pc = "layout_start"
    /\ blocks # <<>>
    /\ \E mw \in {Median([i \in 1..Len(blocks) |-> blocks[i]._w])} :
           /\ median_width' = mw
           /\ col_boundaries' = ColBoundaries(blocks, mw)
    /\ median_height' = Median([i \in 1..Len(blocks) |-> blocks[i]._h])
    /\ pc' = "assign"
    /\ UNCHANGED <<blocks, columns, column_cards, table_rows, extracted_lines,
                   result_blocks, layout>>
    /\ UNCHANGED parseVars /\ UNCHANGED cleanVars

\* lines 191-199
AssignBlocks ==
    /\ pc = "assign"
    /\ columns' = AssignColumns(blocks, col_boundaries)
    /\ pc' = "cluster"
    /\ UNCHANGED <<blocks, median_height, median_width, col_boundaries,
                   column_cards, table_rows, extracted_lines, result_blocks, layout>>
    /\ UNCHANGED parseVars /\ UNCHANGED cleanVars

\* lines 237-240: one iteration, for the column after those clustered so far
ClusterColumn ==
    /\ pc = "cluster"
    /\ Len(column_cards) < Len(col_boundaries)
    /\ column_cards' = Append(column_cards,
            cluster_column_blocks(blocks, columns[Len(column_cards) + 1], median_height))
    /\ pc' = IF Len(column_cards) + 1 = Len(col_boundaries) THEN "build" ELSE "cluster"
    /\ UNCHANGED <<blocks, median_height, median_width, col_boundaries, columns,
                   table_rows, extracted_lines, result_blocks, layout>>
    /\ UNCHANGED parseVars /\ UNCHANGED cleanVars

\* lines 252-290: one iteration, for the row after those built so far
BuildRow ==
    /\ pc = "build"
    /\ Len(table_rows) < MaxCards(column_cards)
    /\ \E r \in {Len(table_rows) + 1} :
       \E cells \in {[c \in 1..Len(col_boundaries) |-> Cell(blocks, column_cards[c], r)]} :
       \E row_text \in {Join(<<"\t">>, [c \in 1..Len(cells) |-> cells[c].text])} :
           /\ table_rows' = Append(table_rows,
                  [row |-> r,
                   cells |-> [c \in 1..Len(cells) |-> cells[c].text],
                   confidences |-> [c \in 1..Len(cells) |-> cells[c].conf]])
           /\ result_blocks' = result_blocks \o RowBlocks(r, cells)
           /\ extracted_lines' = IF RowIsPrinted(row_text)
                                 THEN Append(extracted_lines, row_text)
                                 ELSE extracted_lines
    /\ UNCHANGED <<pc, blocks, median_height, median_width, col_boundaries, columns,
                   column_cards, layout>>
    /\ UNCHANGED parseVars /\ UNCHANGED cleanVars

\* lines 292-300
LayoutReturn ==
    /\ pc = "build"
    /\ Len(table_rows) = MaxCards(column_cards)
    /\ layout' = Some([table_rows |-> table_rows,
                       column_count |-> Len(col_boundaries),
                       row_count |-> MaxCards(column_cards),
                       raw_text |-> Join(<<"\n">>, extracted_lines),
                       blocks |-> result_blocks])
    /\ pc' = "layout_done"
    /\ UNCHANGED <<blocks, median_height, median_width, col_boundaries, columns,
                   column_cards, table_rows, extracted_lines, result_blocks>>
    /\ UNCHANGED parseVars /\ UNCHANGED cleanVars

NextLayout ==
    \/ LayoutEmpty \/ DetectColumns \/ AssignBlocks \/ ClusterColumn
    \/ BuildRow \/ LayoutReturn

\* the block lists analyze_layout_column_first is checked on: up to MaxBlocks
\* blocks drawn from a family of blocks
MaxBlocks == 3
BlockLists(family) == UNION {[1..n -> family] : n \in 0..MaxBlocks}

InitLayout(family) ==
    /\ pc = "layout_start"
    /\ blocks \in BlockLists(family)
    /\ IdleLayout /\ IdleParse /\ IdleClean

\* Blocks of one width in two column positions 300 px apart, with heights 0 and
\* 10 (thresholds 0 and 12) at y positions 0, 15 and 22: vertical gaps below
\* (5, 7), at (12) and above (15, 22) the threshold, overlapping blocks, equal y.
CardBlocks ==
    [text : {<<"a">>}, confidence : {90}, _x : {0, 600}, _y : {0, 15, 22},
     _w : {20}, _h : {0, 10}]
InitCards == InitLayout(CardBlocks)
SpecCards == InitCards /\ [][NextLayout]_vars

\* Blocks at x = 0, 299.5, 300 and 700 px of widths 20 and 400 (gap thresholds
\* 300 and 600), in two rows.
ColumnBlocks ==
    [text : {<<"a">>}, confidence : {90}, _x : {0, 599, 600, 1400}, _y : {0, 100},
     _w : {20, 400}, _h : {10}]
InitColumns == InitLayout(ColumnBlocks)
SpecColumns == InitColumns /\ [][NextLayout]_vars

\* Blocks with empty, blank and non-blank text in two columns and two rows.
TableBlocks ==
    [text : {<<>>, <<" ">>, <<"a">>}, confidence : {90}, _x : {0, 600}, _y : {0, 100},
     _w : {20}, _h : {10}]
InitTable == InitLayout(TableBlocks)
SpecTable == InitTable /\ [][NextLayout]_vars

-----------------------------------------------------------------------------
(* parse_receipt_text.  A local of the code that is used more than once is  *)
(* bound by \E v \in {e}, which evaluates e once.                          *)

\* sorted(blocks, key=lambda b: b.get("_y", 0))
SortByY(bs) == Sorted(bs, [b \in Range(bs) |-> <<b._y>>])

\* StoreNameFrom without the [:3]: the loop runs over all of sorted_blocks
RECURSIVE StoreNameFromAll(_, _)
StoreNameFromAll(sb, k) ==
    IF k > Len(sb) THEN None
    ELSE LET text == Strip(sb[k].text) IN
         IF text # <<>> /\ ~HasPrice(text) THEN Some(clean_ocr_text(text))
         ELSE StoreNameFromAll(sb, k + 1)

\* the store-name loop over sorted_blocks[:3], from position k on
RECURSIVE StoreNameFrom(_, _)
StoreNameFrom(sb, k) ==
    IF k > Len(sb) \/ k > 3 THEN None
    ELSE LET text == Strip(sb[k].text) IN
         IF text # <<>> /\ ~HasPrice(text) THEN Some(clean_ocr_text(text))
         ELSE StoreNameFrom(sb, k + 1)

W_subtotal == <<"s","u","b","t","o","t","a","l">>
W_tax == <<"t","a","x">>
W_total == <<"t","o","t","a","l">>
exclude_keywords == <<
    W_subtotal, W_tax, W_total,
    <<"c","h","a","n","g","e">>, <<"c","a","s","h">>, <<"c","a","r","d">>,
    <<"c","r","e","d","i","t">>, <<"d","e","b","i","t">> >>

\* Branch with the test for "total" before the test for "tax"
BranchTotalBeforeTax(text, price) ==
    LET text_lower == ToLower(text) IN
    IF Contains(text_lower, W_subtotal) /\ Truthy(price) THEN "subtotal"
    ELSE IF /\ Contains(text_lower, W_total)
            /\ ~Contains(text_lower, W_subtotal)
            /\ Truthy(price) THEN "total"
    ELSE IF Contains(text_lower, W_tax) /\ Truthy(price) THEN "tax"
    ELSE IF /\ Truthy(price)
            /\ text # <<>>
            /\ ~\E k \in 1..Len(exclude_keywords) : Contains(text_lower, exclude_keywords[k])
         THEN "item"
    ELSE "none"

\* which branch of the if / elif chain a block with cleaned text `text` and
\* extracted price `price` takes: "subtotal", "tax", "total", "item" or "none"
Branch(text, price) ==
    LET text_lower == ToLower(text) IN
    IF Contains(text_lower, W_subtotal) /\ Truthy(price) THEN "subtotal"
    ELSE IF Contains(text_lower, W_tax) /\ Truthy(price) THEN "tax"
    ELSE IF /\ Contains(text_lower, W_total)
            /\ ~Contains(text_lower, W_subtotal)
            /\ Truthy(price) THEN "total"
    ELSE IF /\ Truthy(price)
            /\ text # <<>>
            /\ ~\E k \in 1..Len(exclude_keywords) : Contains(text_lower, exclude_keywords[k])
         THEN "item"
    ELSE "none"

\* the items the "item" branch appends: one, if the name left after removing the
\* prices is not empty
ItemOf(text, price) ==
    LET item_name == Strip(PriceStrip(text)) IN
    IF item_name # <<>>
    THEN <<[name |-> item_name, quantity |-> 1,
            unit_price |-> price[1], total_price |-> price[1]]>>
    ELSE <<>>

\* lines 511-525: initialise, sort, pick the store name
ParseSort ==
    /\ pc = "parse_start"
    /\ \E sb \in {SortByY(blocks)} :
           /\ sorted_blocks' = sb
           /\ store_name' = StoreNameFrom(sb, 1)
    /\ items' = <<>> /\ subtotal' = None /\ tax' = None /\ total' = None
    /\ idx' = 1
    /\ pc' = "parse_loop"
    /\ UNCHANGED <<blocks, parsed>>
    /\ UNCHANGED layoutVars /\ UNCHANGED cleanVars

\* lines 530-549: one iteration of the classification loop
ParseBlock ==
    /\ pc = "parse_loop"
    /\ idx <= Len(sorted_blocks)
    /\ \E text \in {clean_ocr_text(sorted_blocks[idx].text)} :
       \E price \in {extract_price(text)} :
       \E br \in {Branch(text, price)} :
           /\ subtotal' = IF br = "subtotal" THEN price ELSE subtotal
           /\ tax' = IF br = "tax" THEN price ELSE tax
           /\ total' = IF br = "total" THEN price ELSE total
           /\ items' = IF br = "item" THEN items \o ItemOf(text, price) ELSE items
    /\ idx' = idx + 1
    /\ UNCHANGED <<pc, blocks, sorted_blocks, store_name, parsed>>
    /\ UNCHANGED layoutVars /\ UNCHANGED cleanVars

\* lines 551-557
ParseReturn ==
    /\ pc = "parse_loop"
    /\ idx > Len(sorted_blocks)
    /\ parsed' = Some([store_name |-> store_name, items |-> items,
                       subtotal |-> subtotal, tax |-> tax, total |-> total])
    /\ pc' = "parse_done"
    /\ UNCHANGED <<blocks, sorted_blocks, idx, store_name, items, subtotal, tax, total>>
    /\ UNCHANGED layoutVars /\ UNCHANGED cleanVars

\* the blocks parse_receipt_text is checked on: a label with or without a
\* price, at one of two heights
MaxParseBlocks == 2

ParseLabels == {
    <<"S","u","b","t","o","t","a","l"," ">>,
    <<"T","a","x"," ">>,
    <<"T","o","t","a","l"," ">>,
    <<"M","i","l","k"," ">> }
ParsePrices == {
    <<"$","1","0",".","0","0">>,
    <<"0",".","0","0">>,
    <<"3",".","5","0">> }
ParseTexts ==
    {l \o p : l \in ParseLabels, p \in ParsePrices} \cup {<<>>, <<"M","i","l","k">>}
ParseYs == {0, 40}

ParseBlocks ==
    [text : ParseTexts, confidence : {90}, _x : {0}, _y : ParseYs, _w : {100}, _h : {20}]

InitParse ==
    /\ pc = "parse_start"
    /\ blocks \in UNION {[1..n -> ParseBlocks] : n \in 0..MaxParseBlocks}
    /\ IdleLayout /\ IdleParse /\ IdleClean

NextParse == ParseSort \/ ParseBlock \/ ParseReturn
SpecParse == InitParse /\ [][NextParse]_vars

-----------------------------------------------------------------------------
(* Both operations on one block list, as ocr_endpoint calls them: first    *)
(* analyze_layout_column_first, then parse_receipt_text.                   *)

\* app.py lines 645-652: the layout is back, parse_receipt_text is called
CallParse ==
    /\ pc = "layout_done"
    /\ pc' = "parse_start"
    /\ UNCHANGED blocks
    /\ UNCHANGED layoutVars /\ UNCHANGED parseVars /\ UNCHANGED cleanVars

InitBoth == InitLayout(TableBlocks)
NextBoth == NextLayout \/ CallParse \/ NextParse
SpecBoth == InitBoth /\ [][NextBoth]_vars

-----------------------------------------------------------------------------
(* clean_ocr_text called on a text and then again on what it returned.     *)

MaxPieces == 3
MaxCalls == 2

CleanPieces == {
    <<"a">>, <<"&">>, <<"b","&","c">>, <<" ">>, <<"5">>, <<")">>,
    <<"S","u","b","t","o","t","a","l">>, <<"T","o","t","a","i">>,
    <<"T","a","x">>, <<"I","t","e","m","s">> }

CleanInputs ==
    {Concat(ps) : ps \in UNION {[1..n -> CleanPieces] : n \in 0..MaxPieces}}

InitClean ==
    /\ pc = "clean"
    /\ blocks = <<>>
    /\ IdleLayout /\ IdleParse
    /\ text_in \in CleanInputs
    /\ cleaned = <<>> /\ prev_cleaned = <<>> /\ calls = 0

\* one call of clean_ocr_text: on the input first, then on its own result
CleanCall ==
    /\ pc = "clean"
    /\ calls < MaxCalls
    /\ cleaned' = clean_ocr_text(IF calls = 0 THEN text_in ELSE cleaned)
    /\ prev_cleaned' = cleaned
    /\ calls' = calls + 1
    /\ UNCHANGED <<pc, blocks, text_in>>
    /\ UNCHANGED layoutVars /\ UNCHANGED parseVars

NextClean == CleanCall
SpecClean == InitClean /\ [][NextClean]_vars

-----------------------------------------------------------------------------
(* Properties of parse_receipt_text and clean_ocr_text.                    *)

\* the raw text is the word "Subtotal", a space and a price other than 0.00
SubtotalLine(raw) ==
    \E p \in ParsePrices :
        /\ raw = <<"S","u","b","t","o","t","a","l"," ">> \o p
        /\ Cents(p) # 0

\* C1: a fragment "Subtotal <price>" sets subtotal to that price and leaves total
\* as it was: in the loop iteration that handles such a fragment, subtotal becomes
\* the price of the raw text and total does not change.
C1_SubtotalLineSetsSubtotal ==
    [][(/\ pc = "parse_loop"
        /\ idx <= Len(sorted_blocks)
        /\ SubtotalLine(sorted_blocks[idx].text))
       => (/\ subtotal' = extract_price(sorted_blocks[idx].text)
           /\ total' = total)]_vars

\* C2: clean_ocr_text is idempotent: the second call, made on the result of the
\* first, returns its argument.
C2_CleanIdempotent == calls >= 2 => cleaned = prev_cleaned

\* the price of the last block of sb that satisfies Q, None if there is none
LastPrice(sb, Q(_)) ==
    LET hits == {k \in 1..Len(sb) : Q(sb[k].text)} IN
    IF hits = {} THEN None
    ELSE extract_price(clean_ocr_text(sb[CHOOSE k \in hits : \A j \in hits : j <= k].text))

\* a price is extracted and the cleaned lowercase text has "tax", not "subtotal"
QualifiesTax(raw) ==
    LET text == clean_ocr_text(raw) IN
    /\ extract_price(text) # None
    /\ Contains(ToLower(text), W_tax)
    /\ ~Contains(ToLower(text), W_subtotal)

\* a price is extracted and the cleaned lowercase text has "total" and neither
\* "subtotal" nor "tax"
QualifiesTotal(raw) ==
    LET text == clean_ocr_text(raw) IN
    /\ extract_price(text) # None
    /\ Contains(ToLower(text), W_total)
    /\ ~Contains(ToLower(text), W_subtotal)
    /\ ~Contains(ToLower(text), W_tax)

\* C10: whatever the price, after the call tax is the price of the last fragment
\* in ascending-y order whose text has "tax" (and not "subtotal") and a price, and
\* total that of the last fragment with "total" (and neither "subtotal" nor "tax")
\* and a price; each is absent only if no fragment qualifies.
C10_LastQualifyingPriceWins ==
    pc = "parse_done" =>
        /\ parsed[1].tax = LastPrice(sorted_blocks, QualifiesTax)
        /\ parsed[1].total = LastPrice(sorted_blocks, QualifiesTotal)

-----------------------------------------------------------------------------
(* The empty block list.                                                   *)

\* C8: on an empty list analyze_layout_column_first returns column_count 0,
\* row_count 0, raw_text "" and no table rows, and parse_receipt_text returns
\* store_name, subtotal, tax and total absent and no items.
C8_EmptyInput ==
    blocks = <<>> =>
        /\ pc \notin {"assign", "cluster", "build"}
        /\ layout # None =>
              /\ layout[1].column_count = 0
              /\ layout[1].row_count = 0
              /\ layout[1].raw_text = <<>>
              /\ layout[1].table_rows = <<>>
        /\ pc = "parse_done" =>
              /\ layout # None
              /\ parsed = Some([store_name |-> None, items |-> <<>>,
                                subtotal |-> None, tax |-> None, total |-> None])

\* both operations have returned for the empty list
C8_Witness == blocks = <<>> /\ pc = "parse_done" /\ layout # None /\ parsed # None

-----------------------------------------------------------------------------
(* Properties of the cards of a column.                                    *)

\* the element that sorted(values) holds at position len // 2: at most len // 2
\* elements are smaller and more than len // 2 are not greater
UpperMedian(values) ==
    CHOOSE m \in Range(values) :
        /\ Cardinality({i \in 1..Len(values) : values[i] < m}) <= Len(values) \div 2
        /\ Cardinality({i \in 1..Len(values) : values[i] <= m}) > Len(values) \div 2

\* the median height over all blocks of the document
DocMedianHeight == UpperMedian([i \in 1..Len(blocks) |-> blocks[i]._h])

\* every column has its cards
Clustered == pc \in {"build", "layout_done"} /\ blocks # <<>>

Cols == 1..Len(col_boundaries)
InColumn(c) == Range(columns[c])
SameCard(c, A, B) ==
    \E k \in 1..Len(column_cards[c]) : {A, B} \subseteq Range(column_cards[c][k])

\* the vertical gap B.y - (A.y + A.h)
VGap(A, B) == blocks[B]._y - (blocks[A]._y + blocks[A]._h)
\* g >= 1.2 * median_height
GapAtThreshold(g) == 10 * g >= 12 * DocMedianHeight

ClearOfAllAbove(c, B) ==
    \A F \in InColumn(c) \ {B} :
        blocks[F]._y <= blocks[B]._y => GapAtThreshold(VGap(F, B))

C4_SmallGapJoinsAlways ==
    Clustered =>
        \A c \in Cols : \A A \in InColumn(c) : \A B \in InColumn(c) \ {A} :
            (blocks[A]._y <= blocks[B]._y /\ ~GapAtThreshold(VGap(A, B)))
                => SameCard(c, A, B)

\* A comes before B in the list sorted by y: it starts higher, or at the same y
\* and earlier in the input
SortsBefore(A, B) ==
    \/ blocks[A]._y < blocks[B]._y
    \/ blocks[A]._y = blocks[B]._y /\ A < B

\* C4 amended: two blocks of a column with A.y <= B.y and a gap below
\* 1.2 * median_height are in the same card, except when median_height is 0 and
\* the two have the same y with B earlier in the input list: it holds when
\* median_height > 0, and when A comes before B in the column's y-sorted order.
C4_SmallGapJoins ==
    Clustered =>
        \A c \in Cols : \A A \in InColumn(c) : \A B \in InColumn(c) \ {A} :
            (/\ blocks[A]._y <= blocks[B]._y
             /\ ~GapAtThreshold(VGap(A, B))
             /\ DocMedianHeight > 0 \/ SortsBefore(A, B))
                => SameCard(c, A, B)

\* a block A, a block F between A and B in y-order whose own bottom edge is
\* at least the threshold above B, and B in the card of A
C4_Witness ==
    /\ Clustered
    /\ \E c \in Cols : \E A \in InColumn(c) : \E F \in InColumn(c) \ {A} :
       \E B \in InColumn(c) \ {A, F} :
           /\ SortsBefore(A, F) /\ SortsBefore(F, B)
           /\ DocMedianHeight > 0
           /\ ~GapAtThreshold(VGap(A, B))
           /\ GapAtThreshold(VGap(F, B))
           /\ SameCard(c, A, B)

-----------------------------------------------------------------------------
(* Order of the input.                                                     *)

\* the cards analyze_layout_column_first forms for the block list bs, by column
CardsOf(bs) ==
    LET mh == Median([i \in 1..Len(bs) |-> bs[i]._h])
        bounds == ColBoundaries(bs, Median([i \in 1..Len(bs) |-> bs[i]._w]))
        cols == AssignColumns(bs, bounds)
    IN  [c \in 1..Len(bounds) |-> cluster_column_blocks(bs, cols[c], mh)]

\* the cards cc of a list as sets of blocks, position i of the list being block p[i]
PartitionOf(cc, p) ==
    [c \in 1..Len(cc) |-> {{p[i] : i \in Range(cc[c][k])} : k \in 1..Len(cc[c])}]

InputOrders(n) == {p \in [1..n -> 1..n] : \A i, j \in 1..n : p[i] = p[j] => i = j}

\* every permutation of the input gives the partition and the row count returned
SameUnderPermutation ==
    \A p \in InputOrders(Len(blocks)) :
        LET cc == CardsOf([k \in 1..Len(blocks) |-> blocks[p[k]]]) IN
        /\ PartitionOf(cc, p) = PartitionOf(column_cards, [i \in 1..Len(blocks) |-> i])
        /\ MaxCards(cc) = layout[1].row_count

\* C5 as stated: for every block list, a median height of 0 included, every
\* permutation of the input gives the same partition into cards per column and
\* the same row_count.
C5_OrderIndependentAlways ==
    (pc = "layout_done" /\ blocks # <<>>) => SameUnderPermutation

\* C5 amended: for every block list whose median height is greater than 0 (equal
\* y and zero heights included), every permutation of the input gives the same
\* partition into cards per column and the same row_count.
C5_OrderIndependent ==
    (pc = "layout_done" /\ blocks # <<>> /\ DocMedianHeight > 0) => SameUnderPermutation

\* three blocks in one column, two of them different with the same y, a positive
\* median height and more than one card
C5_Witness ==
    /\ pc = "layout_done" /\ Len(blocks) = 3
    /\ DocMedianHeight > 0
    /\ \E c \in Cols :
          /\ Len(columns[c]) = 3
          /\ Len(column_cards[c]) = 2
          /\ \E A \in InColumn(c) : \E B \in InColumn(c) :
                blocks[A]._y = blocks[B]._y /\ blocks[A]._h # blocks[B]._h

-----------------------------------------------------------------------------
(* Columns and the table.                                                  *)

\* the distinct integer x-start positions
XStarts == {IntOf(blocks[i]._x) : i \in 1..Len(blocks)}
\* pairs of consecutive distinct x-start positions
ConsecutiveStarts ==
    {xy \in XStarts \X XStarts :
        xy[1] < xy[2] /\ ~\E z \in XStarts : xy[1] < z /\ z < xy[2]}
\* the difference of the pair is >= max(1.5 * median_width, 300)
WideGap(xy) ==
    LET mw == UpperMedian([i \in 1..Len(blocks) |-> blocks[i]._w]) IN
    /\ 2 * (xy[2] - xy[1]) >= 3 * mw
    /\ xy[2] - xy[1] >= 300

\* C6: for a non-empty list, column_count is 1 plus the number of pairs of
\* consecutive distinct integer x-start positions whose difference is at least
\* max(1.5 * median_width, 300); the first boundary is the smallest x-start.
C6_ColumnCount ==
    (blocks # <<>> /\ pc # "layout_start") =>
        /\ Len(col_boundaries) = 1 + Cardinality({xy \in ConsecutiveStarts : WideGap(xy)})
        /\ col_boundaries[1] = CHOOSE x \in XStarts : \A z \in XStarts : x <= z
        /\ layout # None => layout[1].column_count = Len(col_boundaries)

\* three columns are returned where one of the two gaps is exactly 300 px
C6_Witness ==
    /\ pc = "layout_done" /\ blocks # <<>>
    /\ layout[1].column_count = 3
    /\ \E xy \in ConsecutiveStarts : xy[2] - xy[1] = 300

\* C7: row_count is the largest number of cards of a column and the length of
\* table_rows; every row has column_count cells and column_count confidences; a
\* column with fewer than r cards has the empty string and 0.0 in row r.
C7_RowCoverage ==
    (pc = "layout_done" /\ blocks # <<>>) =>
        LET res == layout[1] IN
        /\ \A c \in Cols : Len(column_cards[c]) <= res.row_count
        /\ \E c \in Cols : Len(column_cards[c]) = res.row_count
        /\ Len(res.table_rows) = res.row_count
        /\ \A r \in 1..Len(res.table_rows) :
              /\ Len(res.table_rows[r].cells) = res.column_count
              /\ Len(res.table_rows[r].confidences) = res.column_count
              /\ \A c \in Cols :
                    Len(column_cards[c]) < r =>
                        /\ res.table_rows[r].cells[c] = <<>>
                        /\ res.table_rows[r].confidences[c] = 0

\* a column with one card beside a column with two: the second row has a cell
\* without a card
C7_Witness ==
    /\ pc = "layout_done" /\ blocks # <<>>
    /\ \E c, d \in Cols : Len(column_cards[c]) = 1 /\ Len(column_cards[d]) = 2
    /\ layout[1].row_count = 2

\* the text of a row: its cells joined by tabs
RowText(row) == Join(<<"\t">>, row.cells)
\* the row's joined text is entirely whitespace
BlankRow(row) == \A i \in 1..Len(RowText(row)) : RowText(row)[i] \in Whitespace
\* number of characters ch in s
Count(s, ch) == Cardinality({i \in 1..Len(s) : s[i] = ch})

\* C9: blank rows are in table_rows and in row_count but not in raw_text:
\* raw_text is the newline-join, in row order, of the tab-joined cells of the
\* non-blank rows, with column_count - 1 tabs per non-blank row.
C9_BlankRowsLeftOut ==
    (pc = "layout_done" /\ blocks # <<>>) =>
        LET res == layout[1]
            printed == SelectSeq(res.table_rows, LAMBDA row : ~BlankRow(row))
        IN  /\ Len(res.table_rows) = res.row_count
            /\ \A c \in Cols : Len(column_cards[c]) <= Len(res.table_rows)
            /\ res.raw_text = Join(<<"\n">>, [k \in 1..Len(printed) |-> RowText(printed[k])])
            /\ Count(res.raw_text, "\t") = (res.column_count - 1) * Len(printed)
            /\ Count(res.raw_text, "\n") = Max(Len(printed) - 1, 0)

\* two columns, a blank row followed by a non-blank row
C9_Witness ==
    /\ pc = "layout_done" /\ blocks # <<>>
    /\ layout[1].column_count = 2
    /\ layout[1].row_count = 2
    /\ Len(layout[1].table_rows) = 2
    /\ BlankRow(layout[1].table_rows[1])
    /\ ~BlankRow(layout[1].table_rows[2])
    /\ Count(layout[1].raw_text, "\t") = 1

-----------------------------------------------------------------------------
(* The store name.                                                         *)

\* the blocks the store name is checked on: up to MaxStoreBlocks blocks with a
\* blank text (empty once stripped), a price, a plain and a misread text, at one
\* of two heights
MaxStoreBlocks == 4
StoreTexts == {
    <<" ">>,
    <<"3",".","5","0">>,
    <<"M","i","l","k">>,
    <<"T","o","t","a","i"," ">> }
StoreBlocks ==
    [text : StoreTexts, confidence : {90}, _x : {0}, _y : ParseYs, _w : {100}, _h : {20}]
InitStore ==
    /\ pc = "parse_start"
    /\ blocks \in UNION {[1..n -> StoreBlocks] : n \in 0..MaxStoreBlocks}
    /\ IdleLayout /\ IdleParse /\ IdleClean
SpecStore == InitStore /\ [][NextParse]_vars

\* the text of the block has a character besides whitespace and no price in it
NamesStore(b) ==
    /\ \E i \in 1..Len(b.text) : b.text[i] \notin Whitespace
    /\ ~\E i \in 1..Len(b.text) : PriceMatchEnd(b.text, i) # 0
\* the positions of the first three blocks in ascending-y order that qualify
StoreCandidates == {k \in 1..Len(sorted_blocks) : k <= 3 /\ NamesStore(sorted_blocks[k])}

\* C11: the store name is the cleaned text of the first of the first three
\* blocks in ascending-y order whose text is not blank and holds no price; it is
\* absent if none of the three qualifies, whatever blocks follow.
C11_StoreNameFromFirstThree ==
    pc = "parse_done" =>
        /\ \A k \in 1..(Len(sorted_blocks) - 1) : sorted_blocks[k]._y <= sorted_blocks[k + 1]._y
        /\ StoreCandidates = {} => parsed[1].store_name = None
        /\ StoreCandidates # {} =>
              LET k == CHOOSE k \in StoreCandidates : \A j \in StoreCandidates : k <= j
              IN  parsed[1].store_name = Some(clean_ocr_text(sorted_blocks[k].text))

\* the fourth block in y order, given before the others, would qualify and none
\* of the first three does
C11_Witness ==
    /\ pc = "parse_done"
    /\ Len(sorted_blocks) = 4
    /\ StoreCandidates = {}
    /\ NamesStore(sorted_blocks[4])
    /\ blocks[1] = sorted_blocks[4]
    /\ blocks[1]._y > blocks[2]._y
    /\ parsed[1].store_name = None

-----------------------------------------------------------------------------
(* Line items.                                                             *)

\* a price is extracted from the cleaned text, which is non-empty, has none of
\* the exclusion keywords and has characters left once the prices are removed
QualifiesItem(raw) ==
    LET text == clean_ocr_text(raw) IN
    /\ extract_price(text) # None
    /\ text # <<>>
    /\ \A k \in 1..Len(exclude_keywords) : ~Contains(ToLower(text), exclude_keywords[k])
    /\ \E i \in 1..Len(PriceStrip(text)) : PriceStrip(text)[i] \notin Whitespace

\* the positions in sorted_blocks of the fragments that qualify, ascending
ItemPositions ==
    SelectSeq([k \in 1..Len(sorted_blocks) |-> k],
              LAMBDA k : QualifiesItem(sorted_blocks[k].text))

\* C12: every fragment with a price (0.00 included), a non-empty cleaned text
\* without exclusion keyword and name characters besides the price yields exactly
\* one line item, in ascending-y order; every item has a non-empty name,
\* quantity 1 and unit_price = total_price = the first price of its fragment.
C12_EveryPricedLineIsAnItem ==
    pc = "parse_done" =>
        /\ Len(parsed[1].items) = Len(ItemPositions)
        /\ \A j \in 1..Len(parsed[1].items) :
              LET item == parsed[1].items[j] IN
              /\ item.name # <<>>
              /\ item.quantity = 1
              /\ item.unit_price = item.total_price
              /\ j <= Len(ItemPositions) =>
                    Some(item.unit_price) =
                        extract_price(clean_ocr_text(sorted_blocks[ItemPositions[j]].text))

-----------------------------------------------------------------------------
(* Column bands.                                                           *)

\* the integer x-start of block i lies in the half-open interval of band c
InBand(i, c) ==
    /\ col_boundaries[c] <= IntOf(blocks[i]._x)
    /\ c < Len(col_boundaries) => IntOf(blocks[i]._x) < col_boundaries[c + 1]

\* C13: the column boundaries are strictly ascending, and every block is assigned
\* to exactly one column, the one whose half-open interval [start, next start)
\* holds the block's integer x-start (the last interval is open-ended).
C13_BandsPartitionX ==
    (blocks # <<>> /\ pc \in {"cluster", "build", "layout_done"}) =>
        /\ \A c \in 1..(Len(col_boundaries) - 1) : col_boundaries[c] < col_boundaries[c + 1]
        /\ Len(columns) = Len(col_boundaries)
        /\ \A i \in 1..Len(blocks) :
              \A c \in 1..Len(col_boundaries) :
                  (\E k \in 1..Len(columns[c]) : columns[c][k] = i) <=> InBand(i, c)

\* two bands, the first holding a block that starts inside the band, to the
\* right of the band's start, and one at a fractional position
C13_Witness ==
    /\ pc = "layout_done" /\ blocks # <<>>
    /\ Len(col_boundaries) = 2
    /\ \E i \in Range(columns[1]) : IntOf(blocks[i]._x) >= col_boundaries[1] + 299
    /\ \E i \in Range(columns[1]) : blocks[i]._x % 2 = 1

-----------------------------------------------------------------------------
(* The cell of a card.                                                     *)

\* Blocks for the cells: a misread text of low confidence and a plain text of
\* low or high confidence, at five positions: two x at one y, a second y in the
\* same card, a second card, a second column.
CellLabels == {
    [text |-> <<"T","o","t","a","i">>, confidence |-> 50],
    [text |-> <<"b">>, confidence |-> 50],
    [text |-> <<"b">>, confidence |-> 90] }
CellPlaces == {
    [_x |-> 0, _y |-> 0], [_x |-> 40, _y |-> 0], [_x |-> 0, _y |-> 5],
    [_x |-> 0, _y |-> 100], [_x |-> 600, _y |-> 0] }
CellBlocks ==
    {[text |-> l.text, confidence |-> l.confidence, _x |-> p._x, _y |-> p._y,
      _w |-> 20, _h |-> 10] : l \in CellLabels, p \in CellPlaces}
InitCells == InitLayout(CellBlocks)
SpecCells == InitCells /\ [][NextLayout]_vars

\* the orders of the blocks of a card that ascend in (y, x)
ReadingOrders(card) ==
    {o \in [1..Len(card) -> Range(card)] :
        /\ \A i, j \in 1..Len(card) : o[i] = o[j] => i = j
        /\ \A i \in 1..(Len(card) - 1) :
              \/ blocks[o[i]]._y < blocks[o[i + 1]]._y
              \/ /\ blocks[o[i]]._y = blocks[o[i + 1]]._y
                 /\ blocks[o[i]]._x <= blocks[o[i + 1]]._x}

\* C14: for every row r and column c with a card at index r, the cell's text is
\* the cleaned single-space join of that card's texts in ascending (y, x) order
\* and its confidence is the largest confidence of the card's blocks.
C14_CellFromItsCard ==
    (pc = "layout_done" /\ blocks # <<>>) =>
        \A c \in 1..Len(column_cards) : \A r \in 1..Len(column_cards[c]) :
            LET card == column_cards[c][r]
                row == layout[1].table_rows[r]
            IN  /\ \E o \in ReadingOrders(card) :
                      row.cells[c] =
                          clean_ocr_text(Join(<<" ">>, [k \in 1..Len(card) |-> blocks[o[k]].text]))
                /\ \E i \in Range(card) : row.confidences[c] = blocks[i].confidence
                /\ \A i \in Range(card) : row.confidences[c] >= blocks[i].confidence

\* a card of three blocks given out of reading order, the first of low
\* confidence and another of high confidence
C14_Witness ==
    /\ pc = "layout_done" /\ Len(blocks) = 3
    /\ Len(column_cards) = 1 /\ Len(column_cards[1]) = 1
    /\ blocks[1]._y > blocks[2]._y
    /\ blocks[2]._x > blocks[3]._x /\ blocks[2]._y = blocks[3]._y
    /\ blocks[1].confidence = 50 /\ blocks[2].confidence = 90
    /\ blocks[1].text # blocks[2].text
    /\ layout[1].table_rows[1].confidences[1] = 90

-----------------------------------------------------------------------------
(* First match wins.                                                       *)

\* the blocks the rules are checked on: texts with "tax" and "total", with
\* "subtotal" and "tax", with an exclusion keyword and a price, with keywords and
\* no price, a total and an item
RuleTexts == {
    <<"T","a","x"," ","T","o","t","a","l"," ","3",".","5","0">>,
    <<"S","u","b","t","o","t","a","l","s"," ","T","a","x"," ","3",".","5","0">>,
    <<"T","a","x"," ","T","o","t","a","l">>,
    <<"C","a","s","h"," ","3",".","5","0">>,
    <<"T","o","t","a","l"," ","$","1","0",".","0","0">>,
    <<"M","i","l","k"," ","3",".","5","0">> }
RuleBlocks ==
    [text : RuleTexts, confidence : {90}, _x : {0}, _y : ParseYs, _w : {100}, _h : {20}]
InitRules ==
    /\ pc = "parse_start"
    /\ blocks \in UNION {[1..n -> RuleBlocks] : n \in 0..MaxParseBlocks}
    /\ IdleLayout /\ IdleParse /\ IdleClean
SpecRules == InitRules /\ [][NextParse]_vars

\* the cleaned lowercase text of the block the loop is at
TextLowerAt(k) == ToLower(clean_ocr_text(sorted_blocks[k].text))
\* the step is one iteration of the classification loop
ClassifiesBlock == pc = "parse_loop" /\ idx <= Len(sorted_blocks) /\ idx' = idx + 1
\* how many of subtotal, tax, total and items the step changes
FieldsChanged ==
    Cardinality({f \in {"subtotal", "tax", "total", "items"} :
        \/ f = "subtotal" /\ subtotal' # subtotal
        \/ f = "tax" /\ tax' # tax
        \/ f = "total" /\ total' # total
        \/ f = "items" /\ items' # items})
\* the text has one of the exclusion keywords
HasExcludeKeyword(t) == \E k \in 1..Len(exclude_keywords) : Contains(t, exclude_keywords[k])

\* C15 as stated: a fragment changes at most one of subtotal, tax, total and
\* items; a fragment whose text contains "tax" and "total" (inside "subtotal" or
\* not) changes none of them but tax; a fragment with an exclusion keyword adds
\* no item.
C15_TaxAndTotalSetsOnlyTax ==
    [][ClassifiesBlock =>
          /\ FieldsChanged <= 1
          /\ (Contains(TextLowerAt(idx), W_tax) /\ Contains(TextLowerAt(idx), W_total)) =>
                (subtotal' = subtotal /\ total' = total /\ items' = items)
          /\ HasExcludeKeyword(TextLowerAt(idx)) => items' = items]_vars

\* C15 amended: a fragment changes at most one of subtotal, tax, total and items;
\* a fragment whose text contains "tax" and "total" and not "subtotal" changes
\* none of them but tax, and one that contains "subtotal" changes none but
\* subtotal; a fragment with an exclusion keyword adds no item.
C15_FirstMatchWins ==
    [][ClassifiesBlock =>
          /\ FieldsChanged <= 1
          /\ (/\ Contains(TextLowerAt(idx), W_tax)
              /\ Contains(TextLowerAt(idx), W_total)
              /\ ~Contains(TextLowerAt(idx), W_subtotal)) =>
                (subtotal' = subtotal /\ total' = total /\ items' = items)
          /\ Contains(TextLowerAt(idx), W_subtotal) =>
                (tax' = tax /\ total' = total /\ items' = items)
          /\ HasExcludeKeyword(TextLowerAt(idx)) => items' = items]_vars

\* the loop has passed a total and then a fragment with "tax" and "total" and a
\* price: tax is set and total is still that of the first fragment
C15_Witness ==
    /\ pc = "parse_loop" /\ idx = 3
    /\ TextLowerAt(1) = <<"t","o","t","a","l"," ","$","1","0",".","0","0">>
    /\ Contains(TextLowerAt(2), W_tax) /\ Contains(TextLowerAt(2), W_total)
    /\ ~Contains(TextLowerAt(2), W_subtotal)
    /\ tax = Some(350) /\ total = Some(1000) /\ subtotal = None /\ items = <<>>

-----------------------------------------------------------------------------
(* Nothing is lost.                                                        *)

\* the places <<column, card, position>> of the cards
CardPlaces ==
    {p \in (1..Len(column_cards)) \X (1..Len(blocks)) \X (1..Len(blocks)) :
        /\ p[2] <= Len(column_cards[p[1]])
        /\ p[3] <= Len(column_cards[p[1]][p[2]])}

\* C16: for a non-empty list every block is in exactly one card of exactly one
\* column, every column has a block, every card is non-empty, column_count and
\* row_count are at least 1 and the cards hold as many blocks as the input.
C16_NothingLostOrDuplicated ==
    (blocks # <<>> /\ pc \in {"build", "layout_done"}) =>
        /\ \A i \in 1..Len(blocks) :
              Cardinality({p \in CardPlaces : column_cards[p[1]][p[2]][p[3]] = i}) = 1
        /\ Cardinality(CardPlaces) = Len(blocks)
        /\ \A c \in 1..Len(column_cards) :
              /\ columns[c] # <<>>
              /\ column_cards[c] # <<>>
              /\ \A r \in 1..Len(column_cards[c]) : column_cards[c][r] # <<>>
        /\ Len(column_cards) = Len(col_boundaries)
        /\ Len(col_boundaries) >= 1
        /\ pc = "layout_done" =>
              /\ layout[1].column_count >= 1
              /\ layout[1].row_count >= 1

\* three blocks in two columns, one of the columns with two cards
C16_Witness ==
    /\ pc = "layout_done" /\ Len(blocks) = 3
    /\ Len(column_cards) = 2
    /\ \E c \in 1..2 : Len(column_cards[c]) = 2
    /\ layout[1].row_count = 2

-----------------------------------------------------------------------------
(* Consecutive cards.                                                      *)

\* the largest bottom edge y + h of the blocks of a card
MaxBottom(card) ==
    LET bottoms == {blocks[i]._y + blocks[i]._h : i \in Range(card)}
    IN  CHOOSE m \in bottoms : \A n \in bottoms : n <= m
\* the smallest y of the blocks of a card
FirstY(card) ==
    LET ys == {blocks[i]._y : i \in Range(card)}
    IN  CHOOSE m \in ys : \A n \in ys : m <= n

\* C17: in every column, for consecutive cards k and k + 1, every block of card
\* k + 1 has y at least the largest y of card k, and the smallest y of card k + 1
\* is at least 1.2 * median_height below the largest bottom edge of card k.
C17_CardsApartByThreshold ==
    Clustered =>
        \A c \in 1..Len(column_cards) : \A k \in 1..(Len(column_cards[c]) - 1) :
            /\ \A i \in Range(column_cards[c][k]) : \A j \in Range(column_cards[c][k + 1]) :
                  blocks[j]._y >= blocks[i]._y
            /\ GapAtThreshold(FirstY(column_cards[c][k + 1]) - MaxBottom(column_cards[c][k]))

\* a column of two cards with a positive threshold, where the block added last
\* to the first card ends above the card's largest bottom edge
C17_Witness ==
    /\ pc = "layout_done" /\ blocks # <<>>
    /\ DocMedianHeight > 0
    /\ \E c \in 1..Len(column_cards) :
          /\ Len(column_cards[c]) = 2
          /\ LET card == column_cards[c][1] IN
             /\ Len(card) = 2
             /\ blocks[card[2]]._y + blocks[card[2]]._h < MaxBottom(card)

====
